---- MODULE Spec2Model ----
(***************************************************************************)
(* A model of klaytn's sharded key-value database                          *)
(* (storage/database/sharded_database.go): the shard router, the point     *)
(* operations, the batch worker pool behind shardedDBBatch.Write, and the  *)
(* channel / serial iterators.                                             *)
(*                                                                         *)
(* The specifications share the variables:                                 *)
(*   SpecPoint  construction (newShardedDB) and the point operations,      *)
(*   SpecApi    the point operations and the Put of a sharded batch,       *)
(*   SpecBatch  sharded batches writing through the shared worker pool,    *)
(*   SpecBuf    one sharded batch: Put, ValueSize, Reset and Write,         *)
(*   SpecIter   one serial iterator: producers, combine worker, Next,       *)
(*   SpecErr    the same with native iterators that fail, and Error,        *)
(*   SpecChan   one channel iterator with a context that is canceled,       *)
(*   SpecClose  sharded batches writing while the database is closed,       *)
(*   SpecLive   sharded batches writing concurrently, with fairness,        *)
(*   SpecRoute  point operations and a sharded batch on the same keys,      *)
(*   SpecDynamo one call of dynamoBatch.Write and its goroutines.           *)
(***************************************************************************)
EXTENDS Integers, Sequences, FiniteSets, TLC

VARIABLES
    numShards,   \* the numShards argument of newShardedDB / pdb.numShards
    ctor,        \* where newShardedDB is: "start", "open", "ready", "fatal", "failed";
                 \* then "closed" after Close, "panic" when the process has ended
    shards,      \* pdb.shards: index -> the backend's contents (key -> value)
    workers,     \* the batchWriteWorker goroutines started so far
    taskCh,      \* pdb.pdbBatchTaskCh: the buffered tasks, oldest first
    keyByte,     \* input: the first byte of the keys the point operations use
    ret,         \* what the last point operation (or batch Put) returned
    kv,          \* history: key -> value of the last successful Put not yet deleted
    batches,     \* shardedDBBatch.batches of each sharded batch: index -> buffered puts
    resultCh,    \* shardedDBBatch.resultCh of each sharded batch
    writer,      \* the Write call in progress on each sharded batch
    commits,     \* history: per batch and index, the outcomes of the sub-batch
                 \* commits run for the batch's current Write call
    iterOpen,    \* whether NewIterator has been called
    iterators,   \* shardedDBChanIterator.iterators: the native iterator of each shard
    resultChs,   \* the per-shard channels the producers fill
    prod,        \* where each newChanWorker goroutine is
    comb,        \* the newCombineWorker goroutine, with its copy of it.resultChs
    itResultCh,  \* shardedDBIterator.resultCh: the combined channel
    ctxDone,     \* whether the iterator's context is canceled
    polls,       \* the receive attempts the Next call in progress has made
    delivered,   \* history: the entries Next has returned true for, in order
    ended,       \* "no", or why Next returned false: "closed" or "timeout"
    released,    \* whether Release has been called
    dyn          \* one call of dynamoBatch.Write: its locals, errCh and goroutines

iterVars == <<iterOpen, iterators, resultChs, prod, comb, itResultCh, ctxDone,
              polls, delivered, ended, released>>

vars == <<numShards, ctor, shards, workers, taskCh, keyByte, dyn, ret, kv,
          batches, resultCh, writer, commits, iterVars>>

---------------------------------------------------------------------------
(* Bounds of the model. *)

\* newShardedDB is tried with every numShards in 0..MaxShardArg.
MaxShardArg == 17

\* A sharded batch buffers at most MaxBatchPuts puts before it is written.
MaxBatchPuts == 2

\* SpecApi tries keys whose first byte is in 0..MaxApiByte.
MaxApiByte == 1

\* SpecBatch: databases of 2^0 .. 2^MaxShardExp shards, NumBatches sharded
\* batches, each written at most MaxWrites times.
MaxShardExp == 1
NumBatches == 2
MaxWrites == 2

\* SpecLive: NumWriters sharded batches of a one-shard database are
\* written concurrently.
NumWriters == 4

\* SpecDynamo: a dynamoBatch holds 0, 1, MaxDynamoItems - 1 or MaxDynamoItems
\* short items (none, one chunk, a full chunk, two chunks) and up to
\* MaxOversizeItems oversize items.
MaxDynamoItems == 26
MaxOversizeItems == 2

\* SpecIter: the database holds any of the keys <<0>> .. <<MaxIterKeys - 1>>
\* when NewIterator is called.
MaxIterKeys == 5

\* Channel capacities, scaled down: the source has
\* shardedDBSubChannelSize = 128 and shardedDBCombineChanSize = 1024.
shardedDBSubChannelSize == 2
shardedDBCombineChanSize == 2

\* The length of a value above which a dynamoBatch keeps it among its
\* oversize items, scaled down: the source has dynamoWriteSizeLimit = 100 * 1024.
dynamoWriteSizeLimit == 4

---------------------------------------------------------------------------
(* Values. *)

Nil == "nil"
errKeyLengthZero == "errKeyLengthZero"
dataNotFoundErr == "dataNotFoundErr"
NoShard == -1

ByteValues == 0..255
Values == {"v1", "v2"}

\* Go's uint is 32 or 64 bits wide; the model keeps the low 30 bits, which
\* holds every bit the operands of IsPow2 and shardIndexByKey can have set.
UintModulus == 2^30

\* a & b on non-negative integers.
RECURSIVE BitAnd(_, _)
BitAnd(a, b) ==
    IF a = 0 \/ b = 0 THEN 0
    ELSE (a % 2) * (b % 2) + 2 * BitAnd(a \div 2, b \div 2)

numShardsLimit == 16

\* IsPow2: (num & (num - 1)) == 0, with num - 1 in unsigned arithmetic.
IsPow2BuggyAlwaysTrue(num) == TRUE
IsPow2(num) == BitAnd(num, (num - 1) % UintModulus) = 0

\* shardIndexByKey: errKeyLengthZero for an empty key, else key[0] & (numShards-1).
\* (key[0] of the source is key[1] here: sequences start at 1.)
shardIndexByKeyLastByte(key, n) ==
    IF Len(key) = 0 THEN [index |-> 0, err |-> errKeyLengthZero]
    ELSE [index |-> BitAnd(key[Len(key)], n - 1), err |-> Nil]
shardIndexByKey(key, n) ==
    IF Len(key) = 0 THEN [index |-> 0, err |-> errKeyLengthZero]
    ELSE [index |-> BitAnd(key[1], n - 1), err |-> Nil]

\* getShardByKey: the index of the shard in pdb.shards, or the router's error.
getShardByKey(key) ==
    LET r == shardIndexByKey(key, numShards)
    IN  IF r.err # Nil THEN [shard |-> NoShard, err |-> r.err]
        ELSE [shard |-> r.index, err |-> Nil]

---------------------------------------------------------------------------
(* A shard backend: a table from keys to values. *)

EmptyStore == [k \in {} |-> Nil]
dbPut(s, k, v) == [x \in DOMAIN s \cup {k} |-> IF x = k THEN v ELSE s[x]]
dbDelete(s, k) == [x \in DOMAIN s \ {k} |-> s[x]]
dbGet(s, k) ==
    IF k \in DOMAIN s THEN [val |-> s[k], err |-> Nil]
    ELSE [val |-> Nil, err |-> dataNotFoundErr]
dbHas(s, k) ==
    IF dbGet(s, k).err # Nil THEN [val |-> "false", err |-> dbGet(s, k).err]
    ELSE [val |-> "true", err |-> Nil]

---------------------------------------------------------------------------
(* The state of a database on which NewIterator has not been called. *)

NoIterator ==
    /\ iterOpen = FALSE
    /\ iterators = << >>
    /\ resultChs = << >>
    /\ prod = << >>
    /\ comb = [pc |-> "none"]
    /\ itResultCh = [buf |-> << >>, closed |-> FALSE]
    /\ ctxDone = FALSE
    /\ polls = 0
    /\ delivered = << >>
    /\ ended = "no"
    /\ released = FALSE

\* No dynamoBatch.Write is being followed step by step.
NoDynamoWrite == [pc |-> "none"]

---------------------------------------------------------------------------
(* newShardedDB. *)

\* logger.Crit is fatal: the process ends there.
Crit == "fatal"

IdleWorker == [pc |-> "recv"]
NilErr == <<"nil">>
IdleWriter == [pc |-> "idle", i |-> 0, n |-> 0, err |-> NilErr, call |-> 0,
               got |-> << >>]

NewShardedDBCheck ==
    /\ ctor = "start"
    /\ ctor' = IF numShards = 0 THEN Crit
               ELSE IF numShards > numShardsLimit THEN Crit
               ELSE IF ~IsPow2(numShards) THEN Crit
               ELSE "open"
    /\ UNCHANGED <<numShards, shards, workers, taskCh, keyByte, dyn, ret, kv,
                   batches, resultCh, writer, commits, iterVars>>

\* One turn of the loop: newDatabase succeeds, the shard is appended and a
\* worker is started.
NewShardedDBOpenShard ==
    /\ ctor = "open"
    /\ Len(workers) < numShards
    /\ shards' = [i \in 0..Len(workers) |->
                    IF i < Len(workers) THEN shards[i] ELSE EmptyStore]
    /\ workers' = Append(workers, IdleWorker)
    /\ UNCHANGED <<numShards, ctor, taskCh, keyByte, dyn, ret, kv,
                   batches, resultCh, writer, commits, iterVars>>

\* One turn of the loop: newDatabase fails and newShardedDB returns its error.
NewShardedDBOpenFail ==
    /\ ctor = "open"
    /\ Len(workers) < numShards
    /\ ctor' = "failed"
    /\ UNCHANGED <<numShards, shards, workers, taskCh, keyByte, dyn, ret, kv,
                   batches, resultCh, writer, commits, iterVars>>

NewShardedDBReturn ==
    /\ ctor = "open"
    /\ Len(workers) = numShards
    /\ ctor' = "ready"
    /\ UNCHANGED <<numShards, shards, workers, taskCh, keyByte, dyn, ret, kv,
                   batches, resultCh, writer, commits, iterVars>>

---------------------------------------------------------------------------
(* Point operations of shardedDB. *)

\* The keys the point operations are tried with: the empty key, a one-byte
\* key and a longer key with the same first byte.
KeyA == <<keyByte>>
KeyB == <<keyByte, (keyByte + 1) % 256>>
PointKeys == {<< >>, KeyA, KeyB}

NoKey == <<NoShard>>
NoReturn == [op |-> "none", key |-> NoKey, shard |-> NoShard, called |-> FALSE,
             val |-> Nil, err |-> Nil]

\* What an operation returned: its value and error, with the key it was
\* given, the shard it resolved and whether it called that shard's backend
\* (or sub-batch).
Returned(op, key, g, val, err) ==
    [op |-> op, key |-> key, shard |-> g.shard, called |-> g.err = Nil,
     val |-> val, err |-> err]

PutMisrouted(key, value) ==
    /\ ctor = "ready"
    /\ LET g == getShardByKey(key)
       IN  IF g.err # Nil
           THEN /\ ret' = Returned("Put", key, g, Nil, g.err)
                /\ UNCHANGED <<shards, kv>>
           ELSE /\ shards' = [shards EXCEPT
                        ![(g.shard + 1) % numShards] = dbPut(@, key, value)]
                /\ kv' = dbPut(kv, key, value)
                /\ ret' = Returned("Put", key, g, Nil, Nil)
    /\ UNCHANGED <<numShards, ctor, workers, taskCh, keyByte, dyn,
                   batches, resultCh, writer, commits, iterVars>>
Put(key, value) ==
    /\ ctor = "ready"
    /\ LET g == getShardByKey(key)
       IN  IF g.err # Nil
           THEN /\ ret' = Returned("Put", key, g, Nil, g.err)
                /\ UNCHANGED <<shards, kv>>
           ELSE /\ shards' = [shards EXCEPT ![g.shard] = dbPut(@, key, value)]
                /\ kv' = dbPut(kv, key, value)
                /\ ret' = Returned("Put", key, g, Nil, Nil)
    /\ UNCHANGED <<numShards, ctor, workers, taskCh, keyByte, dyn,
                   batches, resultCh, writer, commits, iterVars>>

\* What shardedDB.Get returns for key.
pdbGet(key) ==
    LET g == getShardByKey(key)
    IN  IF g.err # Nil
        THEN Returned("Get", key, g, Nil, g.err)
        ELSE Returned("Get", key, g, dbGet(shards[g.shard], key).val,
                      dbGet(shards[g.shard], key).err)

Get(key) ==
    /\ ctor = "ready"
    /\ ret' = pdbGet(key)
    /\ UNCHANGED <<numShards, ctor, shards, workers, taskCh, keyByte, dyn, kv,
                   batches, resultCh, writer, commits, iterVars>>

Has(key) ==
    /\ ctor = "ready"
    /\ LET g == getShardByKey(key)
       IN  IF g.err # Nil
           THEN ret' = Returned("Has", key, g, "false", g.err)
           ELSE ret' = Returned("Has", key, g, dbHas(shards[g.shard], key).val,
                                dbHas(shards[g.shard], key).err)
    /\ UNCHANGED <<numShards, ctor, shards, workers, taskCh, keyByte, dyn, kv,
                   batches, resultCh, writer, commits, iterVars>>

Delete(key) ==
    /\ ctor = "ready"
    /\ LET g == getShardByKey(key)
       IN  IF g.err # Nil
           THEN /\ ret' = Returned("Delete", key, g, Nil, g.err)
                /\ UNCHANGED <<shards, kv>>
           ELSE /\ shards' = [shards EXCEPT ![g.shard] = dbDelete(@, key)]
                /\ kv' = dbDelete(kv, key)
                /\ ret' = Returned("Delete", key, g, Nil, Nil)
    /\ UNCHANGED <<numShards, ctor, workers, taskCh, keyByte, dyn,
                   batches, resultCh, writer, commits, iterVars>>

---------------------------------------------------------------------------
(* Sharded batches: NewBatch and shardedDBBatch.Put. *)

\* A sub-batch made by shard db's NewBatch, a dynamoBatch: the puts it
\* buffers, oldest first (items is batchItems of the source), the puts of
\* oversize values, and size, the sum of the lengths of the values put.
\* kept is history: how many of oversizeBatchItems were put before the last
\* Reset.
dbNewBatch(db) ==
    [db |-> db, items |-> << >>, oversizeBatchItems |-> << >>,
     size |-> 0, kept |-> 0]

\* dynamoBatch.Put. (Values are strings here; len(val) is Len(value).)
batchPut(sub, key, value) ==
    IF Len(value) > dynamoWriteSizeLimit
    THEN [sub EXCEPT !.oversizeBatchItems = Append(@, <<key, value>>),
                     !.size = @ + Len(value)]
    ELSE [sub EXCEPT !.items = Append(@, <<key, value>>),
                     !.size = @ + Len(value)]

\* dynamoBatch.ValueSize.
batchValueSize(sub) == sub.size

\* dynamoBatch.Reset: batchItems and size are cleared; the line clearing
\* oversizeBatchItems is commented out in the source.
batchReset(sub) ==
    [sub EXCEPT !.items = << >>, !.size = 0,
                !.kept = Len(sub.oversizeBatchItems)]

RECURSIVE batchWrite(_, _)
batchWrite(s, items) ==
    IF items = << >> THEN s
    ELSE batchWrite(dbPut(s, Head(items)[1], Head(items)[2]), Tail(items))

\* The number of puts a sharded batch buffers over all its sub-batches.
RECURSIVE SumLen(_, _)
SumLen(subs, n) ==
    IF n = 0 THEN 0
    ELSE Len(subs[n - 1].items) + Len(subs[n - 1].oversizeBatchItems)
         + SumLen(subs, n - 1)
Buffered(b) == SumLen(batches[b], numShards)

\* What a dynamoBatch.Write that succeeds leaves in its shard s: nothing new
\* when size is 0, else the buffered puts and the oversize puts. (An oversize
\* value goes to the file store and is read back by Get through its marker.)
dynamoBatchWrite(s, sub) ==
    IF sub.size = 0 THEN s
    ELSE batchWrite(batchWrite(s, sub.items), sub.oversizeBatchItems)

WriteErr(db) == <<"writeErr", db>>
NoCommits == [i \in 0..numShards - 1 |-> << >>]

NewBatchReversed(b) ==
    /\ ctor = "ready"
    /\ b \notin DOMAIN batches
    /\ batches' = [x \in DOMAIN batches \cup {b} |->
                     IF x = b THEN [i \in 0..numShards - 1 |->
                                       dbNewBatch(numShards - 1 - i)]
                     ELSE batches[x]]
    /\ resultCh' = [x \in DOMAIN resultCh \cup {b} |->
                      IF x = b THEN << >> ELSE resultCh[x]]
    /\ writer' = [x \in DOMAIN writer \cup {b} |->
                    IF x = b THEN IdleWriter ELSE writer[x]]
    /\ commits' = [x \in DOMAIN commits \cup {b} |->
                     IF x = b THEN NoCommits ELSE commits[x]]
    /\ ret' = NoReturn
    /\ UNCHANGED <<numShards, ctor, shards, workers, taskCh, keyByte, dyn, kv, iterVars>>
NewBatch(b) ==
    /\ ctor = "ready"
    /\ b \notin DOMAIN batches
    /\ batches' = [x \in DOMAIN batches \cup {b} |->
                     IF x = b THEN [i \in 0..numShards - 1 |-> dbNewBatch(i)]
                     ELSE batches[x]]
    /\ resultCh' = [x \in DOMAIN resultCh \cup {b} |->
                      IF x = b THEN << >> ELSE resultCh[x]]
    /\ writer' = [x \in DOMAIN writer \cup {b} |->
                    IF x = b THEN IdleWriter ELSE writer[x]]
    /\ commits' = [x \in DOMAIN commits \cup {b} |->
                     IF x = b THEN NoCommits ELSE commits[x]]
    /\ ret' = NoReturn
    /\ UNCHANGED <<numShards, ctor, shards, workers, taskCh, keyByte, dyn, kv, iterVars>>

BatchPutIgnoresErr(b, key, value) ==
    /\ ctor = "ready"
    /\ b \in DOMAIN batches
    /\ writer[b].pc = "idle"
    /\ Buffered(b) < MaxBatchPuts
    /\ LET r == shardIndexByKey(key, numShards)
           g == [shard |-> IF r.err # Nil THEN NoShard ELSE r.index, err |-> r.err]
       IN  /\ batches' = [batches EXCEPT ![b][r.index] = batchPut(@, key, value)]
           /\ ret' = Returned("BatchPut", key, g, Nil, r.err)
    /\ UNCHANGED <<numShards, ctor, shards, workers, taskCh, keyByte, dyn, kv,
                   resultCh, writer, commits, iterVars>>
BatchPut(b, key, value) ==
    /\ ctor = "ready"
    /\ b \in DOMAIN batches
    /\ writer[b].pc = "idle"
    /\ Buffered(b) < MaxBatchPuts
    /\ LET r == shardIndexByKey(key, numShards)
           g == [shard |-> IF r.err # Nil THEN NoShard ELSE r.index, err |-> r.err]
       IN  IF r.err # Nil
           THEN /\ ret' = Returned("BatchPut", key, g, Nil, r.err)
                /\ UNCHANGED batches
           ELSE /\ batches' = [batches EXCEPT
                        ![b][r.index] = batchPut(@, key, value)]
                /\ ret' = Returned("BatchPut", key, g, Nil, Nil)
    /\ UNCHANGED <<numShards, ctor, shards, workers, taskCh, keyByte, dyn, kv,
                   resultCh, writer, commits, iterVars>>

---------------------------------------------------------------------------
(* SpecPoint: construction with every numShards, then point operations. *)


InitPoint ==
    /\ numShards \in 0..MaxShardArg
    /\ keyByte \in ByteValues
    /\ ctor = "start"
    /\ shards = << >>
    /\ workers = << >>
    /\ taskCh = << >>
    /\ ret = NoReturn
    /\ kv = EmptyStore
    /\ batches = << >>
    /\ resultCh = << >>
    /\ writer = << >>
    /\ commits = << >>
    /\ NoIterator
    /\ dyn = NoDynamoWrite

NextPoint ==
    \/ NewShardedDBCheck
    \/ NewShardedDBOpenShard
    \/ NewShardedDBOpenFail
    \/ NewShardedDBReturn
    \/ \E key \in PointKeys, value \in Values : Put(key, value)
    \/ \E key \in PointKeys : Get(key)
    \/ \E key \in PointKeys : Has(key)
    \/ \E key \in PointKeys : Delete(key)

SpecPoint == InitPoint /\ [][NextPoint]_vars

---------------------------------------------------------------------------
(* SpecApi: a constructed database of every valid size, its point         *)
(* operations and the Put of one sharded batch.                            *)

ValidShardCounts == {n \in 1..numShardsLimit : IsPow2(n)}

InitApi ==
    /\ numShards \in ValidShardCounts
    /\ keyByte \in 0..MaxApiByte
    /\ ctor = "ready"
    /\ shards = [i \in 0..numShards - 1 |-> EmptyStore]
    /\ workers = [i \in 1..numShards |-> IdleWorker]
    /\ taskCh = << >>
    /\ ret = NoReturn
    /\ kv = EmptyStore
    /\ batches = << >>
    /\ resultCh = << >>
    /\ writer = << >>
    /\ commits = << >>
    /\ NoIterator
    /\ dyn = NoDynamoWrite

NextApi ==
    \/ \E key \in PointKeys, value \in Values : Put(key, value)
    \/ \E key \in PointKeys : Get(key)
    \/ \E key \in PointKeys : Has(key)
    \/ \E key \in PointKeys : Delete(key)
    \/ NewBatch(1)
    \/ \E key \in PointKeys, value \in Values : BatchPut(1, key, value)

SpecApi == InitApi /\ [][NextApi]_vars

---------------------------------------------------------------------------
(* shardedDBBatch.Write and the batchWriteWorker pool. *)

TaskChCap == numShards * 2
ResultChCapOneShort == numShards - 1
ResultChCap == numShards

\* Write, entered: nothing is enqueued or received yet.
WriteCall(b) ==
    /\ ctor = "ready"
    /\ b \in DOMAIN batches
    /\ writer[b].pc = "idle"
    /\ writer[b].call < MaxWrites
    /\ writer' = [writer EXCEPT ![b] =
            [pc |-> "enqueue", i |-> 0, n |-> 0, err |-> NilErr,
             call |-> @.call + 1, got |-> << >>]]
    /\ commits' = [commits EXCEPT ![b] = NoCommits]
    /\ ret' = NoReturn
    /\ UNCHANGED <<numShards, ctor, shards, workers, taskCh, keyByte, dyn, kv,
                   batches, resultCh, iterVars>>

\* The first loop of Write: send the task of sub-batch i on taskCh, which
\* blocks while the channel is full (and is open: see WriteEnqueuePanic).
WriteEnqueue(b) ==
    /\ b \in DOMAIN batches
    /\ writer[b].pc = "enqueue"
    /\ ctor = "ready"
    /\ Len(taskCh) < TaskChCap
    /\ LET i == writer[b].i
       IN  /\ taskCh' = Append(taskCh,
                  [batch |-> <<b, i>>, index |-> i, resultCh |-> b,
                   owner |-> <<b, writer[b].call>>])
           /\ writer' = [writer EXCEPT
                  ![b].i = i + 1,
                  ![b].pc = IF i + 1 = numShards THEN "receive" ELSE "enqueue"]
    /\ UNCHANGED <<numShards, ctor, shards, workers, keyByte, dyn, ret, kv,
                   batches, resultCh, commits, iterVars>>

\* The second loop of Write: receive one result from the batch's resultCh;
\* an error replaces the one kept so far. After numShards results Write
\* returns err.
WriteReceiveOneShort(b) ==
    /\ b \in DOMAIN batches
    /\ writer[b].pc = "receive"
    /\ resultCh[b] # << >>
    /\ LET batchResult == Head(resultCh[b])
       IN  writer' = [writer EXCEPT
              ![b].err = IF batchResult.err # NilErr THEN batchResult.err ELSE @,
              ![b].n = @ + 1,
              ![b].got = Append(@, batchResult),
              ![b].pc = IF writer[b].n + 1 >= numShards - 1
                        THEN "returned" ELSE "receive"]
    /\ resultCh' = [resultCh EXCEPT ![b] = Tail(@)]
    /\ UNCHANGED <<numShards, ctor, shards, workers, taskCh, keyByte, dyn, ret, kv,
                   batches, commits, iterVars>>
WriteReceiveKeepsFirstErr(b) ==
    /\ b \in DOMAIN batches
    /\ writer[b].pc = "receive"
    /\ resultCh[b] # << >>
    /\ LET batchResult == Head(resultCh[b])
       IN  writer' = [writer EXCEPT
              ![b].err = IF @ = NilErr THEN batchResult.err ELSE @,
              ![b].n = @ + 1,
              ![b].got = Append(@, batchResult),
              ![b].pc = IF writer[b].n + 1 = numShards
                        THEN "returned" ELSE "receive"]
    /\ resultCh' = [resultCh EXCEPT ![b] = Tail(@)]
    /\ UNCHANGED <<numShards, ctor, shards, workers, taskCh, keyByte, dyn, ret, kv,
                   batches, commits, iterVars>>
WriteReceive(b) ==
    /\ b \in DOMAIN batches
    /\ writer[b].pc = "receive"
    /\ resultCh[b] # << >>
    /\ LET batchResult == Head(resultCh[b])
       IN  writer' = [writer EXCEPT
              ![b].err = IF batchResult.err # NilErr THEN batchResult.err ELSE @,
              ![b].n = @ + 1,
              ![b].got = Append(@, batchResult),
              ![b].pc = IF writer[b].n + 1 = numShards
                        THEN "returned" ELSE "receive"]
    /\ resultCh' = [resultCh EXCEPT ![b] = Tail(@)]
    /\ UNCHANGED <<numShards, ctor, shards, workers, taskCh, keyByte, dyn, ret, kv,
                   batches, commits, iterVars>>

\* The caller has Write's result and goes on.
WriteReturn(b) ==
    /\ b \in DOMAIN batches
    /\ writer[b].pc = "returned"
    /\ writer' = [writer EXCEPT ![b].pc = "idle"]
    /\ UNCHANGED <<numShards, ctor, shards, workers, taskCh, keyByte, dyn, ret, kv,
                   batches, resultCh, commits, iterVars>>

\* batchWriteWorker: task := <-batchTasks.
WorkerRecvKeepsTask(w) ==
    /\ w \in DOMAIN workers
    /\ workers[w].pc = "recv"
    /\ taskCh # << >>
    /\ workers' = [workers EXCEPT ![w] = [pc |-> "commit", task |-> Head(taskCh)]]
    /\ taskCh' = taskCh
    /\ UNCHANGED <<numShards, ctor, shards, keyByte, dyn, ret, kv,
                   batches, resultCh, writer, commits, iterVars>>
WorkerRecv(w) ==
    /\ w \in DOMAIN workers
    /\ workers[w].pc = "recv"
    /\ taskCh # << >>
    /\ workers' = [workers EXCEPT ![w] = [pc |-> "commit", task |-> Head(taskCh)]]
    /\ taskCh' = Tail(taskCh)
    /\ UNCHANGED <<numShards, ctor, shards, keyByte, dyn, ret, kv,
                   batches, resultCh, writer, commits, iterVars>>

\* How a call of dynamoBatch.Write ends (see SpecDynamo for its steps):
\* with size 0 it returns nil at once; else it returns nil with its puts
\* written, or the error of a write with none written, or nil with none
\* written, when it has not waited for its writes (they are in flight, or
\* fail unseen; what they do after Write returned is not followed).
Written == "written"
Unwritten == "unwritten"
CommitOutcomes(sub) ==
    IF sub.size = 0 THEN {[err |-> NilErr, puts |-> Written]}
    ELSE {[err |-> NilErr, puts |-> Written],
          [err |-> WriteErr(sub.db), puts |-> Unwritten],
          [err |-> NilErr, puts |-> Unwritten]}

\* batchWriteWorker: task.batch.Write().
WorkerCommit(w) ==
    /\ w \in DOMAIN workers
    /\ workers[w].pc = "commit"
    /\ LET task == workers[w].task
           sub == batches[task.batch[1]][task.batch[2]]
       IN  \E out \in CommitOutcomes(sub) :
             LET err == out.err
             IN  /\ shards' = IF out.puts = Written
                       THEN [shards EXCEPT ![sub.db] = dynamoBatchWrite(@, sub)]
                       ELSE shards
                 /\ workers' = [workers EXCEPT ![w] =
                       [pc |-> "send", task |-> task, err |-> err]]
                 /\ commits' = [commits EXCEPT
                       ![task.batch[1]][task.batch[2]] = Append(@, err)]
    /\ UNCHANGED <<numShards, ctor, taskCh, keyByte, dyn, ret, kv,
                   batches, resultCh, writer, iterVars>>

\* batchWriteWorker: task.resultCh <- pdbBatchResult{task.index, err}, which
\* blocks while that channel is full.
WorkerSendOnSharedCh(w) ==
    /\ w \in DOMAIN workers
    /\ workers[w].pc = "send"
    /\ LET task == workers[w].task
           shared == CHOOSE x \in DOMAIN resultCh :
                        \A y \in DOMAIN resultCh : x <= y
       IN  /\ Len(resultCh[shared]) < ResultChCap
           /\ resultCh' = [resultCh EXCEPT ![shared] = Append(@,
                  [index |-> task.index, err |-> workers[w].err,
                   owner |-> task.owner])]
    /\ workers' = [workers EXCEPT ![w] = IdleWorker]
    /\ UNCHANGED <<numShards, ctor, shards, taskCh, keyByte, dyn, ret, kv,
                   batches, writer, commits, iterVars>>
WorkerSend(w) ==
    /\ w \in DOMAIN workers
    /\ workers[w].pc = "send"
    /\ LET task == workers[w].task
       IN  /\ Len(resultCh[task.resultCh]) < ResultChCap
           /\ resultCh' = [resultCh EXCEPT ![task.resultCh] = Append(@,
                  [index |-> task.index, err |-> workers[w].err,
                   owner |-> task.owner])]
    /\ workers' = [workers EXCEPT ![w] = IdleWorker]
    /\ UNCHANGED <<numShards, ctor, shards, taskCh, keyByte, dyn, ret, kv,
                   batches, writer, commits, iterVars>>

---------------------------------------------------------------------------
(* SpecBatch: NumBatches sharded batches are filled and written            *)
(* concurrently through the worker pool of one database.                   *)

PoolShardCounts == {2^e : e \in 0..MaxShardExp}

\* The keys batch b puts: its j-th put has first byte j, so that successive
\* puts go to successive shards, and ends in b, so that no two batches write
\* the same key.
BatchKey(b, j) == <<j % 256, b>>
BatchValue(b) == IF b % 2 = 1 THEN "v1" ELSE "v2"

InitBatch ==
    /\ numShards \in PoolShardCounts
    /\ keyByte = 0
    /\ ctor = "ready"
    /\ shards = [i \in 0..numShards - 1 |-> EmptyStore]
    /\ workers = [i \in 1..numShards |-> IdleWorker]
    /\ taskCh = << >>
    /\ ret = NoReturn
    /\ kv = EmptyStore
    /\ batches = << >>
    /\ resultCh = << >>
    /\ writer = << >>
    /\ commits = << >>
    /\ NoIterator
    /\ dyn = NoDynamoWrite

NextBatch ==
    \/ \E b \in 1..NumBatches : NewBatch(b)
    \/ \E b \in DOMAIN batches :
          BatchPut(b, BatchKey(b, Buffered(b)), BatchValue(b))
    \/ \E b \in 1..NumBatches : WriteCall(b)
    \/ \E b \in 1..NumBatches : WriteEnqueue(b)
    \/ \E b \in 1..NumBatches : WriteReceive(b)
    \/ \E b \in 1..NumBatches : WriteReturn(b)
    \/ \E w \in 1..numShards : WorkerRecv(w)
    \/ \E w \in 1..numShards : WorkerCommit(w)
    \/ \E w \in 1..numShards : WorkerSend(w)

SpecBatch == InitBatch /\ [][NextBatch]_vars

---------------------------------------------------------------------------
(* shardedDB.Close, and SpecClose: sharded batches write through the pool  *)
(* while the database is closed.                                           *)

\* A goroutine of a process that a panic has ended.
Dead == [pc |-> "dead"]
ExitedWorker == [pc |-> "exit"]

\* Close: close(pdb.pdbBatchTaskCh), then Close of every shard (which for
\* the dynamoDB backend does nothing). ctor = "closed" is the closed task
\* channel.
Close ==
    /\ ctor = "ready"
    /\ ctor' = "closed"
    /\ UNCHANGED <<numShards, shards, workers, taskCh, keyByte, dyn, ret, kv,
                   batches, resultCh, writer, commits, iterVars>>

\* batchWriteWorker: the range loop ends when the channel is closed and
\* holds no task.
WorkerExitLeavesTasks(w) ==
    /\ w \in DOMAIN workers
    /\ workers[w].pc = "recv"
    /\ ctor = "closed"
    /\ workers' = [workers EXCEPT ![w] = ExitedWorker]
    /\ UNCHANGED <<numShards, ctor, shards, taskCh, keyByte, dyn, ret, kv,
                   batches, resultCh, writer, commits, iterVars>>
WorkerExit(w) ==
    /\ w \in DOMAIN workers
    /\ workers[w].pc = "recv"
    /\ ctor = "closed"
    /\ taskCh = << >>
    /\ workers' = [workers EXCEPT ![w] = ExitedWorker]
    /\ UNCHANGED <<numShards, ctor, shards, taskCh, keyByte, dyn, ret, kv,
                   batches, resultCh, writer, commits, iterVars>>

\* The first loop of Write when the task channel is closed: the send
\* panics, and the panic of a goroutine ends the process.
WriteEnqueuePanic(b) ==
    /\ b \in DOMAIN batches
    /\ writer[b].pc = "enqueue"
    /\ ctor = "closed"
    /\ ctor' = "panic"
    /\ workers' = [w \in DOMAIN workers |-> Dead]
    /\ writer' = [x \in DOMAIN writer |-> [writer[x] EXCEPT !.pc = "dead"]]
    /\ UNCHANGED <<numShards, shards, taskCh, keyByte, dyn, ret, kv,
                   batches, resultCh, commits, iterVars>>

\* A database of any of counts shards after NewBatch has made the sharded
\* batches 1..n and each has been put k pairs, k being 0 or 1.
FilledBatches(counts, n, k) ==
    /\ numShards \in counts
    /\ keyByte = 0
    /\ ctor = "ready"
    /\ shards = [i \in 0..numShards - 1 |-> EmptyStore]
    /\ workers = [i \in 1..numShards |-> IdleWorker]
    /\ taskCh = << >>
    /\ ret = NoReturn
    /\ kv = EmptyStore
    /\ batches = [b \in 1..n |-> [i \in 0..numShards - 1 |->
           IF k = 1 /\ i = shardIndexByKey(BatchKey(b, 0), numShards).index
           THEN batchPut(dbNewBatch(i), BatchKey(b, 0), BatchValue(b))
           ELSE dbNewBatch(i)]]
    /\ resultCh = [b \in 1..n |-> << >>]
    /\ writer = [b \in 1..n |-> IdleWriter]
    /\ commits = [b \in 1..n |-> NoCommits]
    /\ NoIterator
    /\ dyn = NoDynamoWrite

InitClose == FilledBatches(PoolShardCounts, NumBatches, 1)

NextClose ==
    \/ \E b \in 1..NumBatches : WriteCall(b)
    \/ \E b \in 1..NumBatches : WriteEnqueue(b)
    \/ \E b \in 1..NumBatches : WriteEnqueuePanic(b)
    \/ \E b \in 1..NumBatches : WriteReceive(b)
    \/ \E b \in 1..NumBatches : WriteReturn(b)
    \/ \E w \in 1..numShards : WorkerRecv(w)
    \/ \E w \in 1..numShards : WorkerCommit(w)
    \/ \E w \in 1..numShards : WorkerSend(w)
    \/ \E w \in 1..numShards : WorkerExit(w)
    \/ Close

\* The scheduler runs every goroutine that can take a step, and a
\* sub-batch commit returns.
PoolFairness(n) ==
    /\ \A w \in 1..2^MaxShardExp :
          /\ WF_vars(WorkerRecv(w))
          /\ WF_vars(WorkerCommit(w))
          /\ WF_vars(WorkerSend(w))
          /\ WF_vars(WorkerExit(w))
    /\ \A b \in 1..n :
          /\ WF_vars(WriteEnqueue(b))
          /\ WF_vars(WriteReceive(b))

SpecClose == InitClose /\ [][NextClose]_vars /\ PoolFairness(NumBatches)

---------------------------------------------------------------------------
(* SpecLive: the sharded batches of a database are written concurrently   *)
(* and again; the database is not closed. A database of one shard has      *)
(* NumWriters batches, more than its worker and its task channel hold      *)
(* tasks, and a database of more shards has NumBatches batches.            *)

InitLive ==
    \/ FilledBatches({1}, NumWriters, 0)
    \/ FilledBatches(PoolShardCounts \ {1}, NumBatches, 0)

NextLive ==
    \/ \E b \in 1..NumWriters : WriteCall(b)
    \/ \E b \in 1..NumWriters : WriteEnqueue(b)
    \/ \E b \in 1..NumWriters : WriteReceive(b)
    \/ \E b \in 1..NumWriters : WriteReturn(b)
    \/ \E w \in 1..numShards : WorkerRecv(w)
    \/ \E w \in 1..numShards : WorkerCommit(w)
    \/ \E w \in 1..numShards : WorkerSend(w)

SpecLive == InitLive /\ [][NextLive]_vars /\ PoolFairness(NumWriters)

---------------------------------------------------------------------------
(* SpecRoute: point operations and one sharded batch, put and written      *)
(* through the pool, on the same database and the same keys.               *)

\* The keys used: the empty key, a two-byte key and a key whose first byte
\* differs from that one's first byte and is that one's last byte.
KeyC == <<(keyByte + 1) % 256>>
RouteKeys == {<< >>, KeyB, KeyC}

InitRoute ==
    /\ numShards \in PoolShardCounts
    /\ keyByte = 0
    /\ ctor = "ready"
    /\ shards = [i \in 0..numShards - 1 |-> EmptyStore]
    /\ workers = [i \in 1..numShards |-> IdleWorker]
    /\ taskCh = << >>
    /\ ret = NoReturn
    /\ kv = EmptyStore
    /\ batches = << >>
    /\ resultCh = << >>
    /\ writer = << >>
    /\ commits = << >>
    /\ NoIterator
    /\ dyn = NoDynamoWrite

NextRoute ==
    \/ \E key \in RouteKeys : Put(key, "v1")
    \/ \E key \in RouteKeys : Get(key)
    \/ \E key \in RouteKeys : Has(key)
    \/ \E key \in RouteKeys : Delete(key)
    \/ NewBatch(1)
    \/ \E key \in RouteKeys : BatchPut(1, key, "v2")
    \/ WriteCall(1)
    \/ WriteEnqueue(1)
    \/ WriteReceive(1)
    \/ WriteReturn(1)
    \/ \E w \in 1..numShards : WorkerRecv(w)
    \/ \E w \in 1..numShards : WorkerCommit(w)
    \/ \E w \in 1..numShards : WorkerSend(w)

SpecRoute == InitRoute /\ [][NextRoute]_vars

---------------------------------------------------------------------------
(* dynamoBatch.Write step by step, and SpecDynamo: one call of Write on a  *)
(* dynamoBatch, with the goroutines it starts.                             *)

\* The number of write requests of one BatchWriteItem call.
dynamoBatchChunk == 25

Min(a, b) == IF a < b THEN a ELSE b

WriteFailed == "writeFailed"
PutFailed == "putFailed"
Pending == "pending"

DynamoItemCounts == {0, 1, MaxDynamoItems - 1, MaxDynamoItems}

\* A goroutine of Write: of a chunk of batchItems or of an oversize item.
\* err and err2 are its locals, tmp the value of numErrsToCheck it read.
NewGoroutine(kind) ==
    [kind |-> kind, pc |-> "write", err |-> Pending, err2 |-> Pending, tmp |-> 0]

poolVars == <<numShards, ctor, shards, workers, taskCh, keyByte, ret, kv,
              batches, resultCh, writer, commits>>

\* if batch.size == 0 { return nil }; else errCh is made. (Every value put
\* has a length of at least 1 here, so size is 0 when nothing was put.)
DynamoWriteEnter ==
    /\ dyn.pc = "enter"
    /\ dyn' = IF dyn.totalItems + dyn.oversize = 0
              THEN [dyn EXCEPT !.pc = "returned", !.result = Nil]
              ELSE [dyn EXCEPT !.pc = "chunks",
                       !.errChCap = dyn.totalItems \div dynamoBatchChunk + 1]
    /\ UNCHANGED <<poolVars, iterVars>>

\* for writtenItems < totalItems: start the goroutine of the next chunk.
DynamoWriteChunks ==
    /\ dyn.pc = "chunks"
    /\ dyn' = IF dyn.writtenItems < dyn.totalItems
              THEN [dyn EXCEPT
                      !.g = Append(@, NewGoroutine("chunk")),
                      !.writtenItems = @ + Min(dynamoBatchChunk,
                                           dyn.totalItems - dyn.writtenItems)]
              ELSE [dyn EXCEPT !.pc = "oversize"]
    /\ UNCHANGED <<poolVars, iterVars>>

\* for _, item := range batch.oversizeBatchItems: start its goroutine.
DynamoWriteOversize ==
    /\ dyn.pc = "oversize"
    /\ dyn' = IF dyn.ranged < dyn.oversize
              THEN [dyn EXCEPT !.g = Append(@, NewGoroutine("oversize")),
                               !.ranged = @ + 1]
              ELSE [dyn EXCEPT !.pc = "check"]
    /\ UNCHANGED <<poolVars, iterVars>>

\* for i := 0; i < numErrsToCheck; i++: the condition, read while the
\* goroutines write numErrsToCheck; return nil when it is false.
DynamoWriteCheck ==
    /\ dyn.pc = "check"
    /\ dyn' = IF dyn.i < dyn.numErrsToCheck
              THEN [dyn EXCEPT !.pc = "recv"]
              ELSE [dyn EXCEPT !.pc = "returned", !.result = Nil]
    /\ UNCHANGED <<poolVars, iterVars>>

\* if err := <-errCh; err != nil { return err }
DynamoWriteRecv ==
    /\ dyn.pc = "recv"
    /\ dyn.errCh # << >>
    /\ dyn' = IF Head(dyn.errCh) # Nil
              THEN [dyn EXCEPT !.errCh = Tail(@), !.pc = "returned",
                               !.result = Head(dyn.errCh)]
              ELSE [dyn EXCEPT !.errCh = Tail(@), !.pc = "check", !.i = @ + 1]
    /\ UNCHANGED <<poolVars, iterVars>>

\* A goroutine's write: BatchWriteItem of a chunk, or fdb.write of an
\* oversize item, which is followed by the Put of its marker when it
\* succeeds.
GoWrite(k) ==
    /\ k \in DOMAIN dyn.g
    /\ dyn.g[k].pc = "write"
    /\ \E err \in {Nil, WriteFailed} :
          dyn' = [dyn EXCEPT
                    !.g[k].err = err,
                    !.g[k].pc = IF dyn.g[k].kind = "oversize" /\ err = Nil
                                THEN "put" ELSE "send"]
    /\ UNCHANGED <<poolVars, iterVars>>

\* err2 := batch.db.Put(item.key, overSizedDataPrefix)
GoPut(k) ==
    /\ k \in DOMAIN dyn.g
    /\ dyn.g[k].pc = "put"
    /\ \E err2 \in {Nil, PutFailed} :
          dyn' = [dyn EXCEPT
                    !.g[k].err2 = err2,
                    !.g[k].pc = IF err2 # Nil THEN "send2" ELSE "send"]
    /\ UNCHANGED <<poolVars, iterVars>>

\* errCh <- err2, then errCh <- err: each blocks while errCh is full.
GoSend(k) ==
    /\ k \in DOMAIN dyn.g
    /\ dyn.g[k].pc \in {"send2", "send"}
    /\ Len(dyn.errCh) < dyn.errChCap
    /\ dyn' = [dyn EXCEPT
                  !.errCh = Append(@, IF dyn.g[k].pc = "send2"
                                      THEN dyn.g[k].err2 ELSE dyn.g[k].err),
                  !.g[k].pc = IF dyn.g[k].pc = "send2" THEN "read2" ELSE "read"]
    /\ UNCHANGED <<poolVars, iterVars>>

\* numErrsToCheck++ is not atomic: the goroutine reads the variable, and
\* then stores the value it read plus one.
GoRead(k) ==
    /\ k \in DOMAIN dyn.g
    /\ dyn.g[k].pc \in {"read2", "read"}
    /\ dyn' = [dyn EXCEPT
                  !.g[k].tmp = dyn.numErrsToCheck,
                  !.g[k].pc = IF dyn.g[k].pc = "read2" THEN "store2" ELSE "store"]
    /\ UNCHANGED <<poolVars, iterVars>>
GoStore(k) ==
    /\ k \in DOMAIN dyn.g
    /\ dyn.g[k].pc \in {"store2", "store"}
    /\ dyn' = [dyn EXCEPT
                  !.numErrsToCheck = dyn.g[k].tmp + 1,
                  !.g[k].pc = IF dyn.g[k].pc = "store2" THEN "send" ELSE "done"]
    /\ UNCHANGED <<poolVars, iterVars>>

InitDynamo ==
    /\ numShards = 1
    /\ keyByte = 0
    /\ ctor = "ready"
    /\ shards = [i \in 0..numShards - 1 |-> EmptyStore]
    /\ workers = [i \in 1..numShards |-> IdleWorker]
    /\ taskCh = << >>
    /\ ret = NoReturn
    /\ kv = EmptyStore
    /\ batches = << >>
    /\ resultCh = << >>
    /\ writer = << >>
    /\ commits = << >>
    /\ iterOpen = FALSE
    /\ iterators = << >>
    /\ resultChs = << >>
    /\ prod = << >>
    /\ comb = [pc |-> "none"]
    /\ itResultCh = [buf |-> << >>, closed |-> FALSE]
    /\ ctxDone = FALSE
    /\ polls = 0
    /\ delivered = << >>
    /\ ended = "no"
    /\ released = FALSE
    /\ \E n \in DynamoItemCounts, o \in 0..MaxOversizeItems :
          dyn = [pc |-> "enter", totalItems |-> n, oversize |-> o,
                 writtenItems |-> 0, ranged |-> 0, errChCap |-> 0,
                 errCh |-> << >>, numErrsToCheck |-> 0, i |-> 0,
                 g |-> << >>, result |-> Pending]

MaxGoroutines == MaxDynamoItems \div dynamoBatchChunk + 1 + MaxOversizeItems

NextDynamo ==
    \/ DynamoWriteEnter
    \/ DynamoWriteChunks
    \/ DynamoWriteOversize
    \/ DynamoWriteCheck
    \/ DynamoWriteRecv
    \/ \E k \in 1..MaxGoroutines : GoWrite(k)
    \/ \E k \in 1..MaxGoroutines : GoPut(k)
    \/ \E k \in 1..MaxGoroutines : GoSend(k)
    \/ \E k \in 1..MaxGoroutines : GoRead(k)
    \/ \E k \in 1..MaxGoroutines : GoStore(k)

SpecDynamo == InitDynamo /\ [][NextDynamo]_vars

---------------------------------------------------------------------------
(* shardedDBBatch.ValueSize and Reset, and SpecBuf: one sharded batch is   *)
(* filled with values of different lengths, measured, reset and written.   *)

\* The loop of ValueSize over the first n sub-batches: maxSize starts at 0
\* and is replaced by every larger batch.ValueSize().
RECURSIVE maxSizeSum(_, _)
maxSizeSum(subs, n) ==
    IF n = 0 THEN 0
    ELSE maxSizeSum(subs, n - 1) + batchValueSize(subs[n - 1])
RECURSIVE maxSize(_, _)
maxSize(subs, n) ==
    IF n = 0 THEN 0
    ELSE LET m == maxSize(subs, n - 1)
         IN  IF batchValueSize(subs[n - 1]) > m
             THEN batchValueSize(subs[n - 1]) ELSE m

\* What a call on a sharded batch that takes no key returned.
BatchReturned(op, val) ==
    [op |-> op, key |-> NoKey, shard |-> NoShard, called |-> TRUE,
     val |-> val, err |-> Nil]

ValueSize(b) ==
    /\ ctor = "ready"
    /\ b \in DOMAIN batches
    /\ writer[b].pc = "idle"
    /\ ret' = BatchReturned("ValueSize", maxSize(batches[b], numShards))
    /\ UNCHANGED <<numShards, ctor, shards, workers, taskCh, keyByte, dyn, kv,
                   batches, resultCh, writer, commits, iterVars>>

\* shardedDBBatch.Reset: batch.Reset() on every sub-batch.
Reset(b) ==
    /\ ctor = "ready"
    /\ b \in DOMAIN batches
    /\ writer[b].pc = "idle"
    /\ batches' = [batches EXCEPT
            ![b] = [i \in DOMAIN batches[b] |-> batchReset(batches[b][i])]]
    /\ ret' = BatchReturned("Reset", Nil)
    /\ UNCHANGED <<numShards, ctor, shards, workers, taskCh, keyByte, dyn, kv,
                   resultCh, writer, commits, iterVars>>

\* The puts SpecBuf makes: the first byte of the key is the index of its
\* shard; a key ending in 0 is put with a short value, a key ending in 1
\* with one longer than dynamoWriteSizeLimit, so that the writes of one
\* commit are to different keys. A sub-batch is given at most one oversize
\* value.
Oversized == "oversized"
BufKeys == {<<c, d>> : c \in 0..numShards - 1, d \in 0..1}
BufValue(key) == IF key[2] = 1 THEN Oversized ELSE "v1"
BufPut(b, key) ==
    /\ b \in DOMAIN batches
    /\ key[2] = 1 => batches[b][key[1]].oversizeBatchItems = << >>
    /\ BatchPut(b, key, BufValue(key))

InitBuf ==
    /\ numShards \in PoolShardCounts
    /\ keyByte = 0
    /\ ctor = "ready"
    /\ shards = [i \in 0..numShards - 1 |-> EmptyStore]
    /\ workers = [i \in 1..numShards |-> IdleWorker]
    /\ taskCh = << >>
    /\ ret = NoReturn
    /\ kv = EmptyStore
    /\ batches = << >>
    /\ resultCh = << >>
    /\ writer = << >>
    /\ commits = << >>
    /\ NoIterator
    /\ dyn = NoDynamoWrite

NextBuf ==
    \/ NewBatch(1)
    \/ \E key \in BufKeys : BufPut(1, key)
    \/ ValueSize(1)
    \/ Reset(1)
    \/ WriteCall(1)
    \/ WriteEnqueue(1)
    \/ WriteReceive(1)
    \/ WriteReturn(1)
    \/ \E w \in 1..numShards : WorkerRecv(w)
    \/ \E w \in 1..numShards : WorkerCommit(w)
    \/ \E w \in 1..numShards : WorkerSend(w)

SpecBuf == InitBuf /\ [][NextBuf]_vars

---------------------------------------------------------------------------
(* Iterators: NewChanIterator's producers, the serial iterator's combine   *)
(* worker, Next and Release.                                               *)

maxRetry == 5

\* Byte-wise order of keys, the order a backend iterates in.
RECURSIVE KeyLess(_, _)
KeyLess(a, b) ==
    IF b = << >> THEN FALSE
    ELSE IF a = << >> THEN TRUE
    ELSE IF Head(a) # Head(b) THEN Head(a) < Head(b)
    ELSE KeyLess(Tail(a), Tail(b))

\* The native iterator of a shard: its entries in key order, none read yet.
RECURSIVE SortedEntries(_, _)
SortedEntries(s, keys) ==
    IF keys = {} THEN << >>
    ELSE LET k == CHOOSE x \in keys : \A y \in keys \ {x} : KeyLess(x, y)
         IN  <<[key |-> k, val |-> s[k]]>> \o SortedEntries(s, keys \ {k})
dbNewIterator(s) ==
    [items |-> SortedEntries(s, DOMAIN s), pos |-> 0, err |-> Nil]

RemoveAtAndAfter(seq, i) == SubSeq(seq, 1, i - 1) \o SubSeq(seq, i + 2, Len(seq))
RemoveAt(seq, i) == SubSeq(seq, 1, i - 1) \o SubSeq(seq, i + 1, Len(seq))

\* newIterator: NewChanIterator with context.Background() makes the native
\* iterators and the per-shard channels and starts one newChanWorker per
\* shard; then the combined channel is made and newCombineWorker started.
NewIterator ==
    /\ ctor = "ready"
    /\ ~iterOpen
    /\ iterOpen' = TRUE
    /\ iterators' = [i \in 0..numShards - 1 |-> dbNewIterator(shards[i])]
    /\ resultChs' = [i \in 0..numShards - 1 |-> [buf |-> << >>, closed |-> FALSE]]
    /\ prod' = [i \in 0..numShards - 1 |-> "next"]
    /\ comb' = [pc |-> "scan", chs |-> [k \in 1..numShards |-> k - 1], i |-> 1]
    /\ itResultCh' = [buf |-> << >>, closed |-> FALSE]
    /\ ret' = NoReturn
    /\ UNCHANGED <<numShards, ctor, shards, workers, taskCh, keyByte, dyn, kv,
                   batches, resultCh, writer, commits,
                   ctxDone, polls, delivered, ended, released>>

\* newChanWorker: it.Next(), then the non-blocking look at ctx.Done(). When
\* the native iterator is exhausted the worker closes its channel; when the
\* context is canceled it returns.
ChanWorkerNext(i) ==
    /\ iterOpen
    /\ prod[i] = "next"
    /\ IF iterators[i].pos < Len(iterators[i].items)
       THEN /\ iterators' = [iterators EXCEPT ![i].pos = @ + 1]
            /\ prod' = [prod EXCEPT ![i] = IF ctxDone THEN "returned" ELSE "send"]
            /\ UNCHANGED resultChs
       ELSE /\ resultChs' = [resultChs EXCEPT ![i].closed = TRUE]
            /\ prod' = [prod EXCEPT ![i] = "done"]
            /\ UNCHANGED iterators
    /\ UNCHANGED <<numShards, ctor, shards, workers, taskCh, keyByte, dyn, ret, kv,
                   batches, resultCh, writer, commits,
                   iterOpen, comb, itResultCh, ctxDone, polls, delivered,
                   ended, released>>

\* newChanWorker: it.Next() returns false because the native iterator of
\* shard i failed, which its Error() reports from then on; the worker
\* closes its channel.
IterErr(i) == "iterErr" \o ToString(i)
ChanWorkerFail(i) ==
    /\ iterOpen
    /\ prod[i] = "next"
    /\ iterators' = [iterators EXCEPT ![i].err = IterErr(i)]
    /\ resultChs' = [resultChs EXCEPT ![i].closed = TRUE]
    /\ prod' = [prod EXCEPT ![i] = "done"]
    /\ UNCHANGED <<numShards, ctor, shards, workers, taskCh, keyByte, dyn, ret, kv,
                   batches, resultCh, writer, commits,
                   iterOpen, comb, itResultCh, ctxDone, polls, delivered,
                   ended, released>>

\* newChanWorker: resultCh <- entry{key, val}, a copy of the current entry;
\* blocks while the channel is full.
ChanWorkerSendAtFront(i) ==
    /\ iterOpen
    /\ prod[i] = "send"
    /\ Len(resultChs[i].buf) < shardedDBSubChannelSize
    /\ resultChs' = [resultChs EXCEPT
            ![i].buf = <<iterators[i].items[iterators[i].pos]>> \o @]
    /\ prod' = [prod EXCEPT ![i] = "next"]
    /\ UNCHANGED <<numShards, ctor, shards, workers, taskCh, keyByte, dyn, ret, kv,
                   batches, resultCh, writer, commits,
                   iterOpen, iterators, comb, itResultCh, ctxDone, polls,
                   delivered, ended, released>>
ChanWorkerSend(i) ==
    /\ iterOpen
    /\ prod[i] = "send"
    /\ Len(resultChs[i].buf) < shardedDBSubChannelSize
    /\ resultChs' = [resultChs EXCEPT
            ![i].buf = Append(@, iterators[i].items[iterators[i].pos])]
    /\ prod' = [prod EXCEPT ![i] = "next"]
    /\ UNCHANGED <<numShards, ctor, shards, workers, taskCh, keyByte, dyn, ret, kv,
                   batches, resultCh, writer, commits,
                   iterOpen, iterators, comb, itResultCh, ctxDone, polls,
                   delivered, ended, released>>

\* The combine worker goes on to the next channel of the range; after the
\* last one len(it.resultChs) is not 0 and the range starts again.
CombineAdvance(c) == [c EXCEPT !.i = IF c.i = Len(c.chs) THEN 1 ELSE c.i + 1]

\* newCombineWorker: one select of the range over it.resultChs.
\*   ctx.Done():     close(it.resultCh) and return;
\*   e, ok := <-ch:  a closed channel is taken out of it.resultChs and the
\*                   range is left (with none left, close(it.resultCh) and
\*                   return); an entry is kept to be sent on it.resultCh;
\*   default:        on to the next channel.
\* A select with several ready cases takes any of them.
CombineSelectClosesEarly ==
    /\ iterOpen
    /\ comb.pc = "scan"
    /\ LET ch == comb.chs[comb.i]
           ready == resultChs[ch].buf # << >> \/ resultChs[ch].closed
       IN  \/ /\ ctxDone
              /\ itResultCh' = [itResultCh EXCEPT !.closed = TRUE]
              /\ comb' = [comb EXCEPT !.pc = "done"]
              /\ UNCHANGED resultChs
           \/ /\ ready
              /\ IF resultChs[ch].buf # << >>
                 THEN /\ resultChs' = [resultChs EXCEPT ![ch].buf = Tail(@)]
                      /\ comb' = [pc |-> "forward", chs |-> comb.chs,
                                  i |-> comb.i, e |-> Head(resultChs[ch].buf)]
                      /\ UNCHANGED itResultCh
                 ELSE LET rest == RemoveAt(comb.chs, comb.i)
                      IN  /\ comb' = [pc |-> "done",
                                      chs |-> rest, i |-> 1]
                          /\ itResultCh' = [itResultCh EXCEPT
                                 !.closed = TRUE]
                          /\ UNCHANGED resultChs
           \/ /\ ~ctxDone
              /\ ~ready
              /\ comb' = CombineAdvance(comb)
              /\ UNCHANGED <<resultChs, itResultCh>>
    /\ UNCHANGED <<numShards, ctor, shards, workers, taskCh, keyByte, dyn, ret, kv,
                   batches, resultCh, writer, commits,
                   iterOpen, iterators, prod, ctxDone, polls, delivered,
                   ended, released>>
CombineSelect ==
    /\ iterOpen
    /\ comb.pc = "scan"
    /\ LET ch == comb.chs[comb.i]
           ready == resultChs[ch].buf # << >> \/ resultChs[ch].closed
       IN  \/ /\ ctxDone
              /\ itResultCh' = [itResultCh EXCEPT !.closed = TRUE]
              /\ comb' = [comb EXCEPT !.pc = "done"]
              /\ UNCHANGED resultChs
           \/ /\ ready
              /\ IF resultChs[ch].buf # << >>
                 THEN /\ resultChs' = [resultChs EXCEPT ![ch].buf = Tail(@)]
                      /\ comb' = [pc |-> "forward", chs |-> comb.chs,
                                  i |-> comb.i, e |-> Head(resultChs[ch].buf)]
                      /\ UNCHANGED itResultCh
                 ELSE LET rest == RemoveAt(comb.chs, comb.i)
                      IN  /\ comb' = [pc |-> IF rest = << >> THEN "done" ELSE "scan",
                                      chs |-> rest, i |-> 1]
                          /\ itResultCh' = [itResultCh EXCEPT
                                 !.closed = IF rest = << >> THEN TRUE ELSE @]
                          /\ UNCHANGED resultChs
           \/ /\ ~ctxDone
              /\ ~ready
              /\ comb' = CombineAdvance(comb)
              /\ UNCHANGED <<resultChs, itResultCh>>
    /\ UNCHANGED <<numShards, ctor, shards, workers, taskCh, keyByte, dyn, ret, kv,
                   batches, resultCh, writer, commits,
                   iterOpen, iterators, prod, ctxDone, polls, delivered,
                   ended, released>>

\* newCombineWorker: it.resultCh <- e; blocks while the channel is full.
CombineForward ==
    /\ iterOpen
    /\ comb.pc = "forward"
    /\ Len(itResultCh.buf) < shardedDBCombineChanSize
    /\ itResultCh' = [itResultCh EXCEPT !.buf = Append(@, comb.e)]
    /\ comb' = CombineAdvance([pc |-> "scan", chs |-> comb.chs, i |-> comb.i])
    /\ UNCHANGED <<numShards, ctor, shards, workers, taskCh, keyByte, dyn, ret, kv,
                   batches, resultCh, writer, commits,
                   iterOpen, iterators, resultChs, prod, ctxDone, polls,
                   delivered, ended, released>>

\* shardedDBIterator.Next: one turn of its retry loop. An entry is taken and
\* Next returns true; a closed channel makes it return false; otherwise it
\* sleeps 10ms, and after maxRetry empty turns it returns false.
NextRetriesForEver ==
    /\ iterOpen
    /\ ~released
    /\ ended = "no"
    /\ IF itResultCh.buf # << >>
       THEN /\ delivered' = Append(delivered, Head(itResultCh.buf))
            /\ itResultCh' = [itResultCh EXCEPT !.buf = Tail(@)]
            /\ polls' = 0
            /\ UNCHANGED ended
       ELSE IF itResultCh.closed
       THEN /\ ended' = "closed"
            /\ polls' = 0
            /\ UNCHANGED <<delivered, itResultCh>>
       ELSE /\ polls' = polls + 1
            /\ ended' = ended
            /\ UNCHANGED <<delivered, itResultCh>>
    /\ UNCHANGED <<numShards, ctor, shards, workers, taskCh, keyByte, dyn, ret, kv,
                   batches, resultCh, writer, commits,
                   iterOpen, iterators, resultChs, prod, comb, ctxDone, released>>
Next ==
    /\ iterOpen
    /\ ~released
    /\ ended = "no"
    /\ IF itResultCh.buf # << >>
       THEN /\ delivered' = Append(delivered, Head(itResultCh.buf))
            /\ itResultCh' = [itResultCh EXCEPT !.buf = Tail(@)]
            /\ polls' = 0
            /\ UNCHANGED ended
       ELSE IF itResultCh.closed
       THEN /\ ended' = "closed"
            /\ polls' = 0
            /\ UNCHANGED <<delivered, itResultCh>>
       ELSE /\ polls' = IF polls + 1 = maxRetry THEN 0 ELSE polls + 1
            /\ ended' = IF polls + 1 = maxRetry THEN "timeout" ELSE ended
            /\ UNCHANGED <<delivered, itResultCh>>
    /\ UNCHANGED <<numShards, ctor, shards, workers, taskCh, keyByte, dyn, ret, kv,
                   batches, resultCh, writer, commits,
                   iterOpen, iterators, resultChs, prod, comb, ctxDone, released>>

\* shardedDBIterator.Error: the loop over the first n of pdi.iterators; err
\* is assigned the Error() of every iterator that has one, so that it ends
\* as that of the last of them.
RECURSIVE iterError(_, _)
iterError(its, n) ==
    IF n = 0 THEN Nil
    ELSE IF its[n - 1].err # Nil THEN its[n - 1].err
    ELSE iterError(its, n - 1)

Error ==
    /\ iterOpen
    /\ polls = 0
    /\ ret' = [op |-> "Error", key |-> NoKey, shard |-> NoShard,
               called |-> TRUE, val |-> Nil,
               err |-> iterError(iterators, numShards)]
    /\ UNCHANGED <<numShards, ctor, shards, workers, taskCh, keyByte, dyn, kv,
                   batches, resultCh, writer, commits, iterVars>>

\* shardedDBIterator.Release: pdi.ctx.Done() returns the context's channel
\* and changes nothing.
Release ==
    /\ iterOpen
    /\ ~released
    /\ polls = 0
    /\ released' = TRUE
    /\ UNCHANGED <<numShards, ctor, shards, workers, taskCh, keyByte, dyn, ret, kv,
                   batches, resultCh, writer, commits,
                   iterOpen, iterators, resultChs, prod, comb, itResultCh,
                   ctxDone, polls, delivered, ended>>

---------------------------------------------------------------------------
(* SpecIter: keys are put, then one serial iterator is made, read with     *)
(* Next and released.                                                      *)

IterKeys == {<<c>> : c \in 0..MaxIterKeys - 1}

\* The keys are put in increasing order, any of them left out.
IterPut(key) ==
    /\ ~iterOpen
    /\ \A i \in DOMAIN shards : \A k \in DOMAIN shards[i] : KeyLess(k, key)
    /\ Put(key, "v1")

InitIter ==
    /\ numShards \in PoolShardCounts
    /\ keyByte = 0
    /\ ctor = "ready"
    /\ shards = [i \in 0..numShards - 1 |-> EmptyStore]
    /\ workers = [i \in 1..numShards |-> IdleWorker]
    /\ taskCh = << >>
    /\ ret = NoReturn
    /\ kv = EmptyStore
    /\ batches = << >>
    /\ resultCh = << >>
    /\ writer = << >>
    /\ commits = << >>
    /\ NoIterator
    /\ dyn = NoDynamoWrite

NextIter ==
    \/ \E key \in IterKeys : IterPut(key)
    \/ NewIterator
    \/ \E i \in 0..numShards - 1 : ChanWorkerNext(i)
    \/ \E i \in 0..numShards - 1 : ChanWorkerSend(i)
    \/ CombineSelect
    \/ CombineForward
    \/ Next
    \/ Release

SpecIter == InitIter /\ [][NextIter]_vars

\* NewChanIterator called by a consumer of the per-shard channels, with a
\* context of its own: the native iterators and the per-shard channels are
\* made and one newChanWorker per shard is started.
NewChanIterator ==
    /\ ctor = "ready"
    /\ ~iterOpen
    /\ iterOpen' = TRUE
    /\ iterators' = [i \in 0..numShards - 1 |-> dbNewIterator(shards[i])]
    /\ resultChs' = [i \in 0..numShards - 1 |-> [buf |-> << >>, closed |-> FALSE]]
    /\ prod' = [i \in 0..numShards - 1 |-> "next"]
    /\ ret' = NoReturn
    /\ UNCHANGED <<numShards, ctor, shards, workers, taskCh, keyByte, dyn, kv,
                   batches, resultCh, writer, commits,
                   comb, itResultCh, ctxDone, polls, delivered, ended, released>>

\* The consumer cancels the context it gave to NewChanIterator.
Cancel ==
    /\ iterOpen
    /\ ~ctxDone
    /\ ctxDone' = TRUE
    /\ UNCHANGED <<numShards, ctor, shards, workers, taskCh, keyByte, dyn, ret, kv,
                   batches, resultCh, writer, commits,
                   iterOpen, iterators, resultChs, prod, comb, itResultCh,
                   polls, delivered, ended, released>>

\* The consumer receives an entry from the channel of shard i, one of
\* Channels().
ChanRecv(i) ==
    /\ iterOpen
    /\ resultChs[i].buf # << >>
    /\ delivered' = Append(delivered, Head(resultChs[i].buf))
    /\ resultChs' = [resultChs EXCEPT ![i].buf = Tail(@)]
    /\ UNCHANGED <<numShards, ctor, shards, workers, taskCh, keyByte, dyn, ret, kv,
                   batches, resultCh, writer, commits,
                   iterOpen, iterators, prod, comb, itResultCh, ctxDone,
                   polls, ended, released>>

NextChan ==
    \/ \E key \in IterKeys : IterPut(key)
    \/ NewChanIterator
    \/ \E i \in 0..numShards - 1 : ChanWorkerNext(i)
    \/ \E i \in 0..numShards - 1 : ChanWorkerSend(i)
    \/ \E i \in 0..numShards - 1 : ChanRecv(i)
    \/ Cancel

SpecChan == InitIter /\ [][NextChan]_vars

\* SpecErr: the native iterators may fail, and the caller asks for Error
\* once every producer has returned.
ErrorAtEnd ==
    /\ \A i \in DOMAIN prod : prod[i] = "done"
    /\ Error

NextErr ==
    \/ NextIter
    \/ \E i \in 0..numShards - 1 : ChanWorkerFail(i)
    \/ ErrorAtEnd

SpecErr == InitIter /\ [][NextErr]_vars

---------------------------------------------------------------------------
(* Claims on shardedDBBatch.Write. *)

Returning(b) == b \in DOMAIN writer /\ writer[b].pc = "returned"
ShardIndexes == 0..numShards - 1

\* The error of the last result of got that carries one, NilErr if none does.
RECURSIVE LastErr(_)
LastErr(got) ==
    IF got = << >> THEN NilErr
    ELSE IF got[Len(got)].err # NilErr THEN got[Len(got)].err
    ELSE LastErr(SubSeq(got, 1, Len(got) - 1))

\* C1: when Write returns it has enqueued one task per shard (N tasks, also
\* for the empty sub-batches) and received N results, and the commit of
\* every shard's sub-batch has been run, once, and has finished.
C1_WriteFanOutFanIn ==
    \A b \in 1..NumBatches : Returning(b) =>
        /\ writer[b].i = numShards
        /\ writer[b].n = numShards
        /\ Len(writer[b].got) = numShards
        /\ \A i \in ShardIndexes : Len(commits[b][i]) = 1
C1_Witness ==
    /\ numShards = 2
    /\ Returning(1)
    /\ Buffered(1) > 0
    /\ \E i \in ShardIndexes : batches[1][i].items = << >>
    /\ 2 \in DOMAIN writer /\ writer[2].pc = "receive"

\* C2: Write returns nil exactly when every shard's commit returned nil, and
\* otherwise the error of the last erroring result it received.
C2_WriteError ==
    \A b \in 1..NumBatches : Returning(b) =>
        /\ (writer[b].err = NilErr) <=>
               (\A i \in ShardIndexes : commits[b][i] = <<NilErr>>)
        /\ writer[b].err = LastErr(writer[b].got)
C2_Witness ==
    /\ numShards = 2
    /\ Returning(1)
    /\ writer[1].got[1].err # NilErr
    /\ writer[1].got[2].err # NilErr
    /\ writer[1].got[1].err # writer[1].got[2].err
    /\ writer[1].err = writer[1].got[2].err

\* C3: when Write returns an error, every key put into the batch and routed
\* to a shard whose commit succeeded (returned nil) is read back by Get with
\* the value put: no successful commit is undone. (No two batches write the
\* same key here.)
C3_PartialFailure ==
    \A b \in 1..NumBatches : (Returning(b) /\ writer[b].err # NilErr) =>
        \A i \in ShardIndexes : commits[b][i] = <<NilErr>> =>
            \A j \in 1..Len(batches[b][i].items) :
                LET item == batches[b][i].items[j]
                IN  /\ pdbGet(item[1]).err = Nil
                    /\ pdbGet(item[1]).val = item[2]


\* C4: with several batches writing at once, every result a Write call
\* receives, or has waiting in its channel, is of a task that this call
\* enqueued, and the call returns with one result for each index 0..N-1.
C4_ResultsPrivate ==
    \A b \in DOMAIN writer :
        /\ \A k \in 1..Len(writer[b].got) :
              writer[b].got[k].owner = <<b, writer[b].call>>
        /\ \A k \in 1..Len(resultCh[b]) :
              resultCh[b][k].owner = <<b, writer[b].call>>
        /\ \A k, l \in 1..Len(writer[b].got) :
              k # l => writer[b].got[k].index # writer[b].got[l].index
        /\ Returning(b) =>
              {writer[b].got[k].index : k \in 1..Len(writer[b].got)} = ShardIndexes
C4_Witness ==
    /\ numShards = 2
    /\ DOMAIN writer = 1..NumBatches
    /\ writer[1].pc = "receive" /\ Len(writer[1].got) = 1
    /\ writer[2].pc = "receive" /\ Len(writer[2].got) = 1
    /\ writer[1].call = 2
    /\ resultCh[1] # << >> /\ resultCh[2] # << >>

\* Where the task of index i of the Write call in progress on batch b is:
\* on the task channel, with a worker, or answered by a result that is in
\* the batch's result channel or was received by Write.
IsTask(t, b, i) == t.owner = <<b, writer[b].call>> /\ t.index = i
Queued(b, i) == {k \in 1..Len(taskCh) : IsTask(taskCh[k], b, i)}
Executing(b, i) ==
    {w \in DOMAIN workers :
        workers[w].pc # "recv" /\ IsTask(workers[w].task, b, i)}
Answered(b, i) ==
    {<<"ch", k>> : k \in {x \in 1..Len(resultCh[b]) : IsTask(resultCh[b][x], b, i)}}
    \cup {<<"got", k>> : k \in {x \in 1..Len(writer[b].got) :
                                    IsTask(writer[b].got[x], b, i)}}

\* C20: a task that Write put on the task channel is at any time in one
\* place only: on the channel, with one worker, or answered by one result
\* carrying its index; its commit has run once when a worker is about to
\* send its result or has sent it, and not before.
C20_TaskExactlyOnce ==
    \A b \in DOMAIN writer : \A i \in ShardIndexes :
        /\ Cardinality(Queued(b, i)) + Cardinality(Executing(b, i))
               + Cardinality(Answered(b, i))
             = (IF i < writer[b].i THEN 1 ELSE 0)
        /\ Len(commits[b][i])
             = (IF \/ Answered(b, i) # {}
                   \/ \E w \in Executing(b, i) : workers[w].pc = "send"
                THEN 1 ELSE 0)
C20_Witness ==
    /\ numShards = 2
    /\ workers[1].pc = "send"
    /\ workers[2].pc = "commit"
    /\ workers[1].task.resultCh # workers[2].task.resultCh
    /\ workers[1].task.index = workers[2].task.index
    /\ taskCh # << >>


\* The task channel is closed and no Write call is still putting tasks on it.
AllExited == \A w \in DOMAIN workers : workers[w] = ExitedWorker
ClosedQuiet ==
    /\ ctor = "closed"
    /\ \A b \in DOMAIN writer : writer[b].pc # "enqueue"

C22_PoolDeadlockFree ==
    /\ \A w \in 1..2^MaxShardExp :
          (w \in DOMAIN workers /\ workers[w].pc = "send")
              ~> (w \in DOMAIN workers /\ workers[w].pc = "recv")
    /\ \A b \in 1..NumWriters :
          (b \in DOMAIN writer /\ writer[b].pc \in {"enqueue", "receive"})
              ~> Returning(b)
C22_Witness ==
    /\ numShards = 1
    /\ Len(taskCh) = TaskChCap
    /\ writer[4].pc = "enqueue"
    /\ workers[1].pc = "send"
    /\ writer[workers[1].task.resultCh].call = 2


\* The keys a sub-batch buffers.
SubKeys(sub) ==
    {sub.items[j][1] : j \in 1..Len(sub.items)}
    \cup {sub.oversizeBatchItems[j][1] : j \in 1..Len(sub.oversizeBatchItems)}

\* C23: every key a shard stores, and every key a sub-batch buffers for a
\* shard, is a key that shardIndexByKey sends to that shard; so no key is in
\* two shards, and the shard a point operation or a batch Put addressed is
\* the only shard that can hold its key.
C23_RoutingInvariant ==
    /\ \A i \in DOMAIN shards : \A k \in DOMAIN shards[i] :
          shardIndexByKey(k, numShards) = [index |-> i, err |-> Nil]
    /\ \A b \in DOMAIN batches : \A i \in DOMAIN batches[b] :
          /\ batches[b][i].db = i
          /\ \A k \in SubKeys(batches[b][i]) :
                shardIndexByKey(k, numShards) = [index |-> i, err |-> Nil]
    /\ \A i, j \in DOMAIN shards :
          i # j => DOMAIN shards[i] \cap DOMAIN shards[j] = {}
    /\ ret.called =>
          \A j \in DOMAIN shards : ret.key \in DOMAIN shards[j] => j = ret.shard
C23_Witness ==
    /\ numShards = 2
    /\ shards[0] # EmptyStore /\ shards[1] # EmptyStore
    /\ \E k \in RouteKeys :
          /\ Len(k) = 2
          /\ k \in DOMAIN shards[keyByte % 2]
          /\ shards[keyByte % 2][k] = "v2"
    /\ \E k \in DOMAIN shards[(keyByte + 1) % 2] :
          shards[(keyByte + 1) % 2][k] = "v1"
    /\ ret.op = "Get" /\ ret.val = "v2"


\* What a goroutine of dynamoBatch.Write has come to.
Reported(gr) == gr.pc = "done"
Failed(gr) == gr.err = WriteFailed \/ gr.err2 = PutFailed

\* C24: when dynamoBatch.Write returns from a batch that holds items,
\* every goroutine it started has sent its outcome and counted it, and the
\* result is an error if any of their writes failed.
C24_WriteWaitsAndReports ==
    (dyn.pc = "returned" /\ dyn.g # << >>) =>
        /\ \A k \in DOMAIN dyn.g : Reported(dyn.g[k])
        /\ (\E k \in DOMAIN dyn.g : Failed(dyn.g[k])) => dyn.result # Nil


\* C25: when newShardedDB has returned the error of a newDatabase call, no
\* worker it started is left waiting on the task channel and no backend it
\* opened is left open. (shards holds the backends opened and not closed.)
C25_FailedOpenLeavesNothing ==
    ctor = "failed" =>
        /\ \A w \in DOMAIN workers : workers[w] = ExitedWorker
        /\ DOMAIN shards = {}

---------------------------------------------------------------------------
(* Claims on the sharded batch's ValueSize, Write and Reset. *)

SubSizes(b) == {batchValueSize(batches[b][i]) : i \in ShardIndexes}

\* C11: ValueSize returns the largest of the sub-batches' sizes: the size of
\* one of them, at least that of each of them (0 when all are empty), not
\* their sum.
C11_ValueSizeIsMax ==
    ret.op = "ValueSize" =>
        /\ ret.val \in SubSizes(1)
        /\ \A x \in SubSizes(1) : x <= ret.val
C11_Witness ==
    /\ ret.op = "ValueSize"
    /\ numShards = 2
    /\ batches[1][0].size = Len("v1")
    /\ batches[1][1].size = Len(Oversized)
    /\ ret.val = Len(Oversized)

\* The tasks, commits and results of the Write call in progress on batch b.
TasksOf(b) == {k \in 1..Len(taskCh) : taskCh[k].resultCh = b}
HeldBy(b) == {w \in DOMAIN workers :
                 workers[w].pc # "recv" /\ workers[w].task.resultCh = b}

\* C12: a Write on a sharded batch whose buffered size is zero is a no-op:
\* it puts no task on the task channel, no sub-batch commit is run for it,
\* and it returns nil.
C12_WriteNoOpWhenEmpty ==
    \A b \in DOMAIN writer :
        (writer[b].pc # "idle" /\ SubSizes(b) = {0}) =>
            /\ TasksOf(b) = {}
            /\ HeldBy(b) = {}
            /\ commits[b] = NoCommits
            /\ writer[b].err = NilErr

\* What a Write of sub-batch sub leaves in its shard s when it commits only
\* the puts made since the last Reset.
dynamoBatchWriteSinceReset(s, sub) ==
    IF sub.size = 0 THEN s
    ELSE batchWrite(batchWrite(s, sub.items),
                    SubSeq(sub.oversizeBatchItems, sub.kept + 1,
                           Len(sub.oversizeBatchItems)))

\* C15: a Write after a Reset commits none of the pairs put before the
\* Reset: whenever a shard changes, it changes by the puts its sub-batch
\* was given since the last Reset (also with oversize values).
C15_ResetClears ==
    [][\A i \in DOMAIN shards :
          (1 \in DOMAIN batches /\ shards'[i] # shards[i]) =>
              shards'[i] = dynamoBatchWriteSinceReset(shards[i], batches[1][i])]_vars

---------------------------------------------------------------------------
(* Claims on the serial iterator. *)

StoredPairs ==
    UNION {{[key |-> k, val |-> shards[i][k]] : k \in DOMAIN shards[i]} :
           i \in DOMAIN shards}
DeliveredPairs == {delivered[j] : j \in DOMAIN delivered}

\* C5: with every stored key in a shard of its own, once Next has returned
\* false the pairs Next delivered are exactly the stored pairs, each once:
\* Next does not return false while a stored pair is undelivered.
C5_UnorderedCompleteness ==
    (/\ iterOpen
     /\ ended # "no"
     /\ \A i \in DOMAIN shards : Cardinality(DOMAIN shards[i]) <= 1)
    => /\ DeliveredPairs = StoredPairs
       /\ Len(delivered) = Cardinality(StoredPairs)

\* C13: a call of Next makes at most 5 receive attempts: an attempt that
\* finds an entry delivers it and ends the call (true), one that finds the
\* channel closed ends it (false), and the 5th attempt in a row that finds
\* the channel empty and open ends it (false); only then is another attempt
\* made.
C13_NextBounded ==
    [][(polls' # polls \/ delivered' # delivered \/ ended' # ended) =>
          /\ polls' < 5
          /\ itResultCh.buf # << >> =>
                /\ delivered' = Append(delivered, Head(itResultCh.buf))
                /\ polls' = 0 /\ ended' = "no"
          /\ (itResultCh.buf = << >> /\ itResultCh.closed) =>
                /\ delivered' = delivered
                /\ polls' = 0 /\ ended' = "closed"
          /\ (itResultCh.buf = << >> /\ ~itResultCh.closed) =>
                /\ delivered' = delivered
                /\ IF polls = 4 THEN polls' = 0 /\ ended' = "timeout"
                   ELSE polls' = polls + 1 /\ ended' = "no"]_vars
C13_Witness ==
    /\ ended = "timeout"
    /\ ~itResultCh.closed
    /\ delivered # << >>
    /\ \E i \in DOMAIN prod : prod[i] \in {"next", "send"}

\* The Error() of the first, lowest-index, native iterator that has one.
FirstError ==
    IF \A i \in DOMAIN iterators : iterators[i].err = Nil THEN Nil
    ELSE iterators[CHOOSE i \in DOMAIN iterators :
                      /\ iterators[i].err # Nil
                      /\ \A j \in DOMAIN iterators :
                            iterators[j].err # Nil => i <= j].err

\* C14: Error returns nil when no shard's native iterator reports an error,
\* and else the error of the first (lowest-index) one that does.
C14_ErrorIsFirst == ret.op = "Error" => ret.err = FirstError

ProducerTerminated(i) == prod[i] \in {"done", "returned"}

\* The shard an entry comes from, and the entries of seq that come from
\* shard i, in the order of seq.
ShardOf(e) == shardIndexByKey(e.key, numShards).index
RECURSIVE OfShard(_, _)
OfShard(seq, i) ==
    IF seq = << >> THEN << >>
    ELSE (IF ShardOf(Head(seq)) = i THEN <<Head(seq)>> ELSE << >>)
         \o OfShard(Tail(seq), i)
Range(seq) == {seq[k] : k \in 1..Len(seq)}

\* The entries the producer of shard i has sent on its channel, and the
\* entries the combine worker has taken from the per-shard channels: those
\* Next delivered, those in the combined channel and the one it holds.
Sent(i) ==
    SubSeq(iterators[i].items, 1,
           IF prod[i] \in {"send", "returned"} THEN iterators[i].pos - 1
           ELSE iterators[i].pos)
Taken ==
    delivered \o itResultCh.buf
    \o (IF comb.pc = "forward" THEN <<comb.e>> ELSE << >>)

\* C17: the combined channel is closed only by the combine worker as its
\* last step, when its active set is empty and every per-shard channel is
\* closed and drained (or the context is canceled); once it is closed the
\* worker takes no step, so it closes it once and sends nothing after.
C17_CombinedClosedOnce ==
    [][/\ itResultCh'.closed =>
             /\ comb'.pc = "done"
             /\ \/ ctxDone'
                \/ /\ comb'.chs = << >>
                   /\ \A i \in DOMAIN resultChs' :
                         resultChs'[i].closed /\ resultChs'[i].buf = << >>
       /\ itResultCh.closed =>
             /\ itResultCh'.closed
             /\ comb' = comb
             /\ Len(itResultCh'.buf) <= Len(itResultCh.buf)]_vars
C17_Witness ==
    /\ numShards = 2
    /\ itResultCh.closed
    /\ itResultCh.buf # << >>
    /\ Len(delivered) >= 2

\* C18: every entry a producer sent is either still in its per-shard
\* channel or was taken by the combine worker and is exactly once among
\* the entries it holds, forwarded or Next delivered; while the worker
\* runs, every per-shard channel that is not closed and drained is once in
\* its active set; and when it has returned (the context not canceled) it
\* has taken every entry of every shard.
C18_ForwardedExactlyOnce ==
    iterOpen =>
        /\ \A i \in DOMAIN prod :
              /\ Range(Sent(i)) = Range(resultChs[i].buf) \cup Range(OfShard(Taken, i))
              /\ Len(Sent(i)) = Len(resultChs[i].buf) + Len(OfShard(Taken, i))
        /\ comb.pc \in {"scan", "forward"} =>
              /\ \A i \in DOMAIN resultChs :
                    (~resultChs[i].closed \/ resultChs[i].buf # << >>) =>
                        i \in Range(comb.chs)
              /\ Cardinality(Range(comb.chs)) = Len(comb.chs)
        /\ (comb.pc = "done" /\ ~ctxDone) =>
              \A i \in DOMAIN iterators :
                  iterators[i].err = Nil =>
                      Range(OfShard(Taken, i)) = Range(iterators[i].items)
C18_Witness ==
    /\ numShards = 2
    /\ comb.pc = "scan"
    /\ comb.chs = <<1>>
    /\ resultChs[1].buf # << >>
    /\ OfShard(delivered, 0) # << >>
    /\ OfShard(delivered, 1) # << >>

\* C19: two entries of the same shard are delivered by Next in the order in
\* which the native iterator of that shard produced them.
C19_PerShardOrder ==
    iterOpen =>
        \A k, l \in 1..Len(delivered) :
            (k < l /\ ShardOf(delivered[k]) = ShardOf(delivered[l])) =>
                LET items == iterators[ShardOf(delivered[k])].items
                IN  \E m, n \in 1..Len(items) :
                        /\ m < n
                        /\ items[m] = delivered[k]
                        /\ items[n] = delivered[l]
C19_Witness ==
    /\ numShards = 2
    /\ Len(delivered) = MaxIterKeys
    /\ ShardOf(delivered[1]) = 1
    /\ ShardOf(delivered[2]) = 0
    /\ ShardOf(delivered[3]) = 0
    /\ ShardOf(delivered[4]) = 1

\* C16: a producer that has returned, after its native iterator was
\* exhausted or after the context was canceled, has closed its channel.
C16_ChannelClosedByProducer ==
    iterOpen => \A i \in DOMAIN prod :
                   ProducerTerminated(i) => resultChs[i].closed
ProducerBlocked(i) ==
    prod[i] = "send" /\ Len(resultChs[i].buf) >= shardedDBSubChannelSize
CombineTerminated == comb.pc = "done"
CombineBlocked ==
    comb.pc = "forward" /\ Len(itResultCh.buf) >= shardedDBCombineChanSize

\* Every goroutine of the iterator has returned or waits on a full channel,
\* and at least one of them waits: none of them takes a step again unless
\* the caller receives from the combined channel.
IterStuck ==
    /\ iterOpen
    /\ \A i \in DOMAIN prod : ProducerTerminated(i) \/ ProducerBlocked(i)
    /\ CombineTerminated \/ CombineBlocked
    /\ ~(CombineTerminated /\ \A i \in DOMAIN prod : ProducerTerminated(i))

\* C6: after Release, with no further call by the caller, the producers and
\* the combine worker terminate: they are never left waiting for ever on
\* full channels, however many entries the shards hold.
C6_ReleaseTerminates == released => ~IterStuck

---------------------------------------------------------------------------
(* Claims on the router, construction and the point operations. *)

\* C7: round trip of point operations, for every N in {1,2,4,8,16} and every
\* first byte 0..255: a Get(k) that follows a Put(k,v) with no Put or Delete
\* of k in between returns v and no error, from the shard Put resolved.
C7_RoundTrip ==
    (ret.op = "Get" /\ ret.key \in DOMAIN kv) =>
        /\ ret.err = Nil
        /\ ret.val = kv[ret.key]
        /\ ret.key \in DOMAIN shards[ret.shard]
C7_Witness ==
    /\ numShards = 16 /\ keyByte = 255
    /\ ret.op = "Get" /\ ret.key = KeyB /\ ret.val = "v2"
    /\ KeyA \in DOMAIN kv /\ kv[KeyA] = "v1"

\* C8: newShardedDB rejects every numShards that is 0, above 16 or not a
\* power of two before any backend is opened or worker started, and goes on
\* for 1, 2, 4, 8 and 16.
C8_ConstructionRejected ==
    /\ numShards \notin {1, 2, 4, 8, 16} =>
            /\ ctor \in {"start", "fatal"}
            /\ DOMAIN shards = {}
            /\ Len(workers) = 0
    /\ numShards \in {1, 2, 4, 8, 16} => ctor # "fatal"
C8_Witness ==
    numShards = 3 /\ ctor = "fatal" /\ Len(workers) = 0

\* C9: for a non-empty key and N in {1,2,4,8,16}, shardIndexByKey returns no
\* error and the index key[0] & (N-1), which is key[0] mod N, lies in [0, N)
\* and is the same for two keys with the same first byte; the operations
\* delegate to that shard.
C9_ShardIndex ==
    ctor = "ready" =>
        /\ \A key \in {KeyA, KeyB} :
              LET r == shardIndexByKey(key, numShards)
              IN  /\ r.err = Nil
                  /\ r.index \in 0..numShards - 1
                  /\ r.index = keyByte % numShards
        /\ shardIndexByKey(KeyA, numShards) = shardIndexByKey(KeyB, numShards)
        /\ ret.called => ret.shard = keyByte % numShards
C9_Witness ==
    /\ ctor = "ready" /\ numShards = 8 /\ keyByte = 254
    /\ ret.op = "Put" /\ ret.key = KeyB /\ ret.shard = 6

\* C10: with a zero-length key, Put, Get, Has, Delete and the batch Put
\* return errKeyLengthZero without calling a backend or a sub-batch, and
\* leave the shards and the sub-batches as they were.
C10_EmptyKey ==
    [][(ret'.key = << >>) =>
          /\ ret'.err = errKeyLengthZero
          /\ ~ret'.called
          /\ shards' = shards
          /\ batches' = batches]_vars
C10_Witness ==
    /\ ret.op = "BatchPut" /\ ret.key = << >> /\ ret.err = errKeyLengthZero
    /\ numShards = 16
    /\ 1 \in DOMAIN batches /\ Buffered(1) > 0
    /\ DOMAIN kv # {}

====
